---- MODULE Spec2Model ----
(***************************************************************************)
(* Model of index.js: the /metrics handler of the Trello exporter.         *)
(*                                                                         *)
(* A text is a sequence of pieces.  The three characters escapeLabel       *)
(* rewrites (backslash, double quote, newline) are always pieces of their  *)
(* own; a run of other characters may be held as one piece.  The empty     *)
(* sequence is the empty string, which JavaScript treats as falsy, as it   *)
(* does a missing field: a missing name is modelled as the empty text.     *)
(* The exposition text is a sequence of lines (each ended by a newline in  *)
(* the code), a line a sequence of pieces.  An array field that is missing *)
(* (Array.isArray fails) is modelled as the empty array, a missing string  *)
(* field as "".  Authorization, /health and the 404 answer are left out.   *)
(***************************************************************************)
EXTENDS Integers, Sequences, FiniteSets, TLC

\* ---------------------------------------------------------------- bounds
MaxCards == 2
MaxItems == 2
MaxNameLen == 2
NumReq == 2

\* ------------------------------------------------------------ characters
BS == "\\"
DQ == "\""
NL == "\n"

\* -------------------------------------------------- domain constants
timeMap ==
  << [id |-> "6317987e46e82a010a822ec0", range |-> <<"<5 min">>, s |-> 180],
     [id |-> "6317987e46e82a010a822ec1", range |-> <<"5 min - 15 min">>, s |-> 600],
     [id |-> "6317987e46e82a010a822ec2", range |-> <<"15 min - 30 min">>, s |-> 1380],
     [id |-> "6317987e46e82a010a822ec3", range |-> <<"30 min - 1 hour">>, s |-> 2700],
     [id |-> "6317987e46e82a010a822ec4", range |-> <<"1 hour - 3 hours">>, s |-> 7200],
     [id |-> "6317987e46e82a010a822ec5", range |-> <<"3+ hours">>, s |-> 14400] >>

priorityMap ==
  << [id |-> "63237551f4e1250062d584d7", name |-> <<"Highest">>],
     [id |-> "63237551f4e1250062d584d8", name |-> <<"High">>],
     [id |-> "63237551f4e1250062d584d9", name |-> <<"Medium">>],
     [id |-> "63237551f4e1250062d584da", name |-> <<"Low">>],
     [id |-> "63237551f4e1250062d584db", name |-> <<"Lowest">>] >>

listNameToId ==
  [ Inbox    |-> "67f45c29f80d25da0f543428",
    Ref      |-> "640fbcf689fe9b86e3721b60",
    Decomp   |-> "67291a8ff4e1941fe4df8c71",
    Ready    |-> "62ba39f3660d8d5b9ec940fe",
    Today    |-> "6601f48e27469813be23ba2e",
    Blocked  |-> "62ba548b2155ca280fefba5b",
    Progress |-> "62ba39f599d17e0e24c5a212",
    Work     |-> "65b184b75a5f898ab7010288",
    Done     |-> "62ba39f7fc9ece2c518208a7" ]

labelNameToId == [ Divider |-> "681a3bbe267f382f9ed138e8" ]

listsToIgnore == {listNameToId.Ref, listNameToId.Decomp}
doneLists == {listNameToId.Done}
ignoreCardsWithAtLeastOneOfTheseLabelIds == {labelNameToId.Divider}

\* Object.prototype.hasOwnProperty.call(map, key) and map[key]
HasKey(map, key) == \E i \in DOMAIN map : map[i].id = key
Lookup(map, key) == map[CHOOSE i \in DOMAIN map : map[i].id = key]

\* customInfo.time / customInfo.priority before any item matched
UndefinedTime == [id |-> "", range |-> <<>>, s |-> 0]
UndefinedPriority == <<>>

\* ------------------------------------------------------ escapeLabel
RECURSIVE ReplaceAll(_, _, _)
\* String.prototype.replace with a global one-character pattern
ReplaceAll(text, ch, rep) ==
  IF text = <<>> THEN <<>>
  ELSE (IF Head(text) = ch THEN rep ELSE <<Head(text)>>)
         \o ReplaceAll(Tail(text), ch, rep)

escapeLabel(value) ==
  ReplaceAll(ReplaceAll(ReplaceAll(value, BS, <<BS, BS>>),
                        DQ, <<BS, DQ>>),
             NL, <<BS, "n">>)

\* a || b on texts
OrElse(a, b) == IF a # <<>> THEN a ELSE b

\* ------------------------------------------- formatPrometheusMetrics
RECURSIVE JoinLabels(_)
\* Object.entries(labels).map(k="v").join(", ")
JoinLabels(labels) ==
  IF labels = <<>> THEN <<>>
  ELSE <<labels[1][1], "=", DQ>> \o escapeLabel(labels[1][2]) \o <<DQ>>
       \o (IF Len(labels) > 1 THEN <<", ">> ELSE <<>>)
       \o JoinLabels(Tail(labels))

SampleLine(metricName, sample) ==
  <<metricName, "{">> \o JoinLabels(sample.labels)
     \o <<"}", " ", ToString(sample.value)>>

TypeLine(metricName) == <<"# TYPE ", metricName, " gauge">>
HelpLine(metricName, help) == <<"# HELP ", metricName, " ", help>>

FamilyBlock_helpFirst(family) ==
  << HelpLine(family.name, family.help), TypeLine(family.name) >>
    \o [i \in DOMAIN family.samples |-> SampleLine(family.name, family.samples[i])]

FamilyBlock(family) ==
  << TypeLine(family.name), HelpLine(family.name, family.help) >>
    \o [i \in DOMAIN family.samples |-> SampleLine(family.name, family.samples[i])]

RECURSIVE formatPrometheusMetrics(_)
formatPrometheusMetrics(metrics) ==
  IF metrics = <<>> THEN <<>>
  ELSE FamilyBlock(Head(metrics)) \o formatPrometheusMetrics(Tail(metrics))

\* ------------------------------------------------------ buildMetrics
\* the metrics object literal, in insertion order, and the first push
NewMetrics ==
  << [name |-> "trello_boards_total", help |-> "Total number of Trello boards",
      samples |-> << [labels |-> <<>>, value |-> 1] >>],
     [name |-> "trello_cards_in_list_total", help |-> "Number of cards per list",
      samples |-> <<>>],
     [name |-> "trello_labeled_cards_on_board",
      help |-> "Number of cards per board and label", samples |-> <<>>],
     [name |-> "trello_cards_per_board_member",
      help |-> "Number of cards per board and member", samples |-> <<>>],
     [name |-> "trello_lists_per_board", help |-> "Number of lists per board",
      samples |-> <<>>],
     [name |-> "trello_time_in_list_total",
      help |-> "Total estimated time in each list (in seconds)", samples |-> <<>>],
     [name |-> "trello_cards_by_priority_total",
      help |-> "Number of cards by priority (excluding done cards)", samples |-> <<>>],
     [name |-> "trello_cards_by_time_total",
      help |-> "Number of cards by time (excluding done cards)", samples |-> <<>>] >>

\* metrics[name].samples.push(...samples)
PushAll(metrics, name, samples) ==
  [i \in DOMAIN metrics |->
     IF metrics[i].name = name
     THEN [metrics[i] EXCEPT !.samples = @ \o samples]
     ELSE metrics[i]]

\* Array.prototype.filter, by the positions kept
RECURSIVE FilterSeq(_, _)
FilterSeq(seq, keep) ==
  IF seq = <<>> THEN <<>>
  ELSE (IF keep[1] THEN <<Head(seq)>> ELSE <<>>)
         \o FilterSeq(Tail(seq), Tail(keep))

KeepList(l) == l.id \notin listsToIgnore

KeepCard_noSeparator(c) ==
  /\ c.idList # ""
  /\ c.idList \notin listsToIgnore
  /\ ~(\E i \in DOMAIN c.idLabels :
         c.idLabels[i] \in ignoreCardsWithAtLeastOneOfTheseLabelIds)

KeepCard(c) ==
  /\ c.idList # ""
  /\ c.idList \notin listsToIgnore
  /\ ~(\E i \in DOMAIN c.idLabels :
         c.idLabels[i] \in ignoreCardsWithAtLeastOneOfTheseLabelIds)
  /\ c.cardRole # "separator"

RECURSIVE ScanItems_firstWins(_, _)
ScanItems_firstWins(items, custom) ==
  IF items = <<>> THEN custom
  ELSE LET v == Head(items).idValue
           c1 == IF v # "" /\ HasKey(timeMap, v) /\ custom.time = UndefinedTime
                 THEN [custom EXCEPT !.time = Lookup(timeMap, v)] ELSE custom
           c2 == IF v # "" /\ HasKey(priorityMap, v) /\ custom.priority = UndefinedPriority
                 THEN [c1 EXCEPT !.priority = Lookup(priorityMap, v).name] ELSE c1
       IN ScanItems_firstWins(Tail(items), c2)

RECURSIVE ScanItems(_, _)
\* for (const item of items) { ...custom.time = ...; ...custom.priority = ... }
ScanItems(items, custom) ==
  IF items = <<>> THEN custom
  ELSE LET v == Head(items).idValue
           c1 == IF v # "" /\ HasKey(timeMap, v)
                 THEN [custom EXCEPT !.time = Lookup(timeMap, v)] ELSE custom
           c2 == IF v # "" /\ HasKey(priorityMap, v)
                 THEN [c1 EXCEPT !.priority = Lookup(priorityMap, v).name] ELSE c1
       IN ScanItems(Tail(items), c2)

Enrich(c) ==
  [ idList |-> c.idList, idLabels |-> c.idLabels, idMembers |-> c.idMembers,
    closed |-> c.closed, cardRole |-> c.cardRole,
    customFieldItems |-> c.customFieldItems,
    customInfo |-> ScanItems(c.customFieldItems,
                             [time |-> UndefinedTime, priority |-> UndefinedPriority]) ]

\* the filtered, enriched cards
EnrichedCards(cardsRaw) ==
  LET kept == FilterSeq(cardsRaw, [i \in DOMAIN cardsRaw |-> KeepCard(cardsRaw[i])])
  IN [i \in DOMAIN kept |-> Enrich(kept[i])]

\* a plain object used as a counter table: obj[k] || 0, obj[k] = (obj[k] || 0) + n
EmptyTable == [k \in {} |-> 0]
Get(table, k) == IF k \in DOMAIN table THEN table[k] ELSE 0
Add(table, k, n) ==
  [x \in DOMAIN table \cup {k} |-> IF x = k THEN Get(table, k) + n ELSE table[x]]

RECURSIVE AddEach(_, _)
\* for (const id of ids) table[id] = (table[id] || 0) + 1
AddEach(table, ids) ==
  IF ids = <<>> THEN table ELSE AddEach(Add(table, Head(ids), 1), Tail(ids))

RECURSIVE CardsByList_countClosed(_, _)
CardsByList_countClosed(cards, table) ==
  IF cards = <<>> THEN table
  ELSE CardsByList_countClosed(Tail(cards), Add(table, Head(cards).idList, 1))

RECURSIVE CardsByList(_, _)
\* for (const card of cards) { if (!card.closed) cardsByList[card.idList]++ }
CardsByList(cards, table) ==
  IF cards = <<>> THEN table
  ELSE LET card == Head(cards)
       IN CardsByList(Tail(cards),
                      IF ~card.closed THEN Add(table, card.idList, 1) ELSE table)

RECURSIVE CardsByPriority_withDone(_, _)
CardsByPriority_withDone(cards, table) ==
  IF cards = <<>> THEN table
  ELSE LET card == Head(cards)
       IN CardsByPriority_withDone(Tail(cards),
            IF ~card.closed /\ card.customInfo.priority # UndefinedPriority
            THEN Add(table, card.customInfo.priority, 1) ELSE table)

RECURSIVE CardsByPriority(_, _)
CardsByPriority(cards, table) ==
  IF cards = <<>> THEN table
  ELSE LET card == Head(cards)
       IN CardsByPriority(Tail(cards),
            IF /\ ~card.closed
               /\ card.customInfo.priority # UndefinedPriority
               /\ card.idList \notin doneLists
            THEN Add(table, card.customInfo.priority, 1) ELSE table)

RECURSIVE CardsByTime(_, _)
CardsByTime(cards, table) ==
  IF cards = <<>> THEN table
  ELSE LET card == Head(cards)
       IN CardsByTime(Tail(cards),
            IF ~card.closed /\ card.customInfo.time # UndefinedTime
            THEN Add(table, card.customInfo.time.range, 1) ELSE table)

RECURSIVE CardTimeByList(_, _)
CardTimeByList(cards, table) ==
  IF cards = <<>> THEN table
  ELSE LET card == Head(cards)
       IN CardTimeByList(Tail(cards),
            IF ~card.closed /\ card.customInfo.time # UndefinedTime
            THEN Add(table, card.idList, card.customInfo.time.s) ELSE table)

RECURSIVE CardsByLabel(_, _)
CardsByLabel(cards, table) ==
  IF cards = <<>> THEN table
  ELSE LET card == Head(cards)
       IN CardsByLabel(Tail(cards),
            IF ~card.closed THEN AddEach(table, card.idLabels) ELSE table)

RECURSIVE CardsByMember(_, _)
CardsByMember(cards, table) ==
  IF cards = <<>> THEN table
  ELSE LET card == Head(cards)
       IN CardsByMember(Tail(cards),
            IF ~card.closed THEN AddEach(table, card.idMembers) ELSE table)

LabelSamples_withZero(boardName, labels, table) ==
  [i \in DOMAIN labels |->
     [labels |-> << <<"board", boardName>>,
                    <<"label", escapeLabel(OrElse(labels[i].name,
                                 OrElse(labels[i].color, <<"unlabeled">>)))>> >>,
      value |-> Get(table, labels[i].id)]]

\* for (const label of labels) { if (count > 0) push }
LabelSamples(boardName, labels, table) ==
  LET kept == FilterSeq(labels, [i \in DOMAIN labels |-> Get(table, labels[i].id) > 0])
  IN [i \in DOMAIN kept |->
        [labels |-> << <<"board", boardName>>,
                       <<"label", escapeLabel(OrElse(kept[i].name,
                                    OrElse(kept[i].color, <<"unlabeled">>)))>> >>,
         value |-> Get(table, kept[i].id)]]

\* for (const m of members) { if (count > 0) push }
MemberSamples(boardName, members, table) ==
  LET kept == FilterSeq(members, [i \in DOMAIN members |-> Get(table, members[i].id) > 0])
  IN [i \in DOMAIN kept |->
        [labels |-> << <<"board", boardName>>,
                       <<"member", escapeLabel(OrElse(kept[i].fullName,
                                     OrElse(kept[i].username, <<kept[i].id>>)))>> >>,
         value |-> Get(table, kept[i].id)]]

\* buildMetrics after the join: fills the request's metrics object
Aggregate(metrics, data) ==
  LET boardName == escapeLabel(OrElse(data.board.name, <<"(unknown)">>))
      lists == FilterSeq(data.lists, [i \in DOMAIN data.lists |-> KeepList(data.lists[i])])
      cards == EnrichedCards(data.cards)
      cardsByList == CardsByList(cards, EmptyTable)
      cardsByPriority == CardsByPriority(cards, EmptyTable)
      cardsByTime == CardsByTime(cards, EmptyTable)
      cardTimeByList == CardTimeByList(cards, EmptyTable)
      cardsByLabel == CardsByLabel(cards, EmptyTable)
      cardsByMember == CardsByMember(cards, EmptyTable)
      m1 == PushAll(metrics, "trello_lists_per_board",
              << [labels |-> << <<"board", boardName>> >>, value |-> Len(lists)] >>)
      m2 == PushAll(m1, "trello_cards_in_list_total",
              [i \in DOMAIN lists |->
                 [labels |-> << <<"board", boardName>>,
                                <<"list", escapeLabel(lists[i].name)>> >>,
                  value |-> Get(cardsByList, lists[i].id)]])
      m3 == PushAll(m2, "trello_cards_by_priority_total",
              [i \in DOMAIN priorityMap |->
                 [labels |-> << <<"board", boardName>>,
                                <<"priority", escapeLabel(priorityMap[i].name)>> >>,
                  value |-> Get(cardsByPriority, priorityMap[i].name)]])
      m4 == PushAll(m3, "trello_cards_by_time_total",
              [i \in DOMAIN timeMap |->
                 [labels |-> << <<"board", boardName>>,
                                <<"time", escapeLabel(timeMap[i].range)>> >>,
                  value |-> Get(cardsByTime, timeMap[i].range)]])
      m5 == PushAll(m4, "trello_time_in_list_total",
              [i \in DOMAIN lists |->
                 [labels |-> << <<"board", boardName>>,
                                <<"list", escapeLabel(lists[i].name)>> >>,
                  value |-> Get(cardTimeByList, lists[i].id)]])
      m6 == PushAll(m5, "trello_labeled_cards_on_board",
              LabelSamples(boardName, data.labels, cardsByLabel))
      m7 == PushAll(m6, "trello_cards_per_board_member",
              MemberSamples(boardName, data.members, cardsByMember))
  IN m7


\* ------------------------------------------------------------- state
Req == 1..NumReq
Fetches == {"board", "lists", "labels", "members", "cards"}

VARIABLES
  pc,          \* per request: "idle", "fetching" (suspended at the join), "done"
  issued,      \* per request and fetch: how many times trelloGet was called
  fetchState,  \* per request and fetch: "none", "pending", "ok", "failed"
  snapshot,    \* per request: what its five fetches returned
  cards,       \* per request: the local cards (filtered and enriched)
  metrics,     \* per request: the local metrics object
  response     \* per request: status (0: nothing sent) and body

vars == <<pc, issued, fetchState, snapshot, cards, metrics, response>>

NoData ==
  [board |-> [name |-> <<>>], lists |-> <<>>, labels |-> <<>>,
   members |-> <<>>, cards |-> <<>>]
NoResponse == [status |-> 0, body |-> <<>>]

\* ------------------------------------------------ upstream (Trello)
MkList(id, name) == [id |-> id, name |-> name]
MkLabel(id, name, color) == [id |-> id, name |-> name, color |-> color]
MkMember(id, fullName, username) ==
  [id |-> id, fullName |-> fullName, username |-> username]
Item(idValue) == [idValue |-> idValue]

LabelUrgent == "5f0000000000000000000001"
LabelLater == "5f0000000000000000000002"
MemberAnn == "5e0000000000000000000001"
MemberBob == "5e0000000000000000000002"

BoardX == [name |-> <<"X">>]
BoardLists ==
  << MkList(listNameToId.Inbox, <<"Inbox">>), MkList(listNameToId.Ref, <<"Ref">>),
     MkList(listNameToId.Today, <<"Today">>), MkList(listNameToId.Done, <<"Done">>) >>
BoardLabels ==
  << MkLabel(labelNameToId.Divider, <<"Divider">>, <<"black">>),
     MkLabel(LabelUrgent, <<"Urgent">>, <<"red">>),
     MkLabel(LabelLater, <<>>, <<"green">>) >>
BoardMembers ==
  << MkMember(MemberAnn, <<"Ann">>, <<"ann1">>),
     MkMember(MemberBob, <<>>, <<"bob2">>) >>

SeqsUpTo(S, n) == UNION {[1..m -> S] : m \in 0..n}

T(i) == Item(timeMap[i].id)
P(i) == Item(priorityMap[i].id)

\* what Trello answers to each of the five GETs while requests are served
PlainCard(idList) ==
  [idList |-> idList, idLabels |-> <<LabelUrgent>>, idMembers |-> <<MemberAnn>>,
   closed |-> FALSE, cardRole |-> "", customFieldItems |-> <<T(1), P(1)>>]
Upstream(k) ==
  CASE k = "board" -> {BoardX}
    [] k = "lists" -> {BoardLists}
    [] k = "labels" -> {BoardLabels}
    [] k = "members" -> {BoardMembers}
    [] k = "cards" -> { <<PlainCard(listNameToId.Inbox)>>,
                        <<PlainCard(listNameToId.Inbox), PlainCard(listNameToId.Done)>> }

Path(k) == IF k = "board" THEN "/boards/BOARD_ID" ELSE "/boards/BOARD_ID/" \o k
ErrorKinds == {"network", "status", "parse"}
ErrorMessage(k, kind) ==
  CASE kind = "status" -> <<"Trello GET ", Path(k), " failed: ">>
    [] kind = "network" -> <<"fetch failed">>
    [] kind = "parse" -> <<"Unexpected token in JSON">>

\* ----------------------------------------------------------- actions
\* GET /metrics arrives: buildMetrics creates its metrics object, pushes the
\* boards_total sample and calls trelloGet five times inside Promise.all
Request(r) ==
  /\ pc[r] \in {"idle", "done"}
  /\ pc' = [pc EXCEPT ![r] = "fetching"]
  /\ issued' = [issued EXCEPT ![r] = [k \in Fetches |-> 1]]
  /\ fetchState' = [fetchState EXCEPT ![r] = [k \in Fetches |-> "pending"]]
  /\ snapshot' = [snapshot EXCEPT ![r] = NoData]
  /\ cards' = [cards EXCEPT ![r] = <<>>]
  /\ metrics' = [metrics EXCEPT ![r] = NewMetrics]
  /\ response' = [response EXCEPT ![r] = NoResponse]

\* one trelloGet resolves with the parsed JSON
FetchOk(r, k) ==
  /\ pc[r] = "fetching"
  /\ fetchState[r][k] = "pending"
  /\ \E d \in Upstream(k) : snapshot' = [snapshot EXCEPT ![r][k] = d]
  /\ fetchState' = [fetchState EXCEPT ![r][k] = "ok"]
  /\ UNCHANGED <<pc, issued, cards, metrics, response>>

FetchFail_retry(r, k) ==
  /\ pc[r] = "fetching"
  /\ fetchState[r][k] = "pending"
  /\ issued' = [issued EXCEPT ![r][k] = @ + 1]
  /\ UNCHANGED <<pc, fetchState, snapshot, cards, metrics, response>>

\* one trelloGet rejects (fetch throws, !res.ok, or res.json() throws): Promise.all
\* rejects, buildMetrics throws and the handler's catch answers 500, all in the
\* same run of microtasks
FetchFail(r, k) ==
  /\ pc[r] = "fetching"
  /\ fetchState[r][k] = "pending"
  /\ fetchState' = [fetchState EXCEPT ![r][k] = "failed"]
  /\ pc' = [pc EXCEPT ![r] = "done"]
  /\ \E kind \in ErrorKinds :
       response' = [response EXCEPT ![r] =
         [status |-> 500,
          body |-> << <<"Internal Server Error">>, ErrorMessage(k, kind) >>]]
  /\ UNCHANGED <<issued, snapshot, cards, metrics>>

RequestData_shared(r) == snapshot[1]

\* const [board, listsRaw, labels, members, cardsRaw] = await Promise.all(...)
RequestData(r) == snapshot[r]

\* all five resolved: the rest of buildMetrics runs and the handler answers 200
Respond200(r) ==
  /\ pc[r] = "fetching"
  /\ \A k \in Fetches : fetchState[r][k] = "ok"
  /\ LET m == Aggregate(metrics[r], RequestData(r))
     IN /\ metrics' = [metrics EXCEPT ![r] = m]
        /\ response' = [response EXCEPT ![r] =
             [status |-> 200, body |-> formatPrometheusMetrics(m)]]
  /\ cards' = [cards EXCEPT ![r] = EnrichedCards(RequestData(r).cards)]
  /\ pc' = [pc EXCEPT ![r] = "done"]
  /\ UNCHANGED <<issued, fetchState, snapshot>>

\* ---------------------------------------------------- specifications
InitIdle ==
  /\ pc = [r \in Req |-> "idle"]
  /\ issued = [r \in Req |-> [k \in Fetches |-> 0]]
  /\ fetchState = [r \in Req |-> [k \in Fetches |-> "none"]]
  /\ snapshot = [r \in Req |-> NoData]
  /\ cards = [r \in Req |-> <<>>]
  /\ metrics = [r \in Req |-> <<>>]
  /\ response = [r \in Req |-> NoResponse]

\* request 1 suspended at the join with all five fetches resolved to one of inputs
InitJoined(inputs) ==
  /\ pc = [r \in Req |-> IF r = 1 THEN "fetching" ELSE "idle"]
  /\ issued = [r \in Req |-> [k \in Fetches |-> IF r = 1 THEN 1 ELSE 0]]
  /\ fetchState = [r \in Req |-> [k \in Fetches |-> IF r = 1 THEN "ok" ELSE "none"]]
  /\ \E d \in inputs : snapshot = [r \in Req |-> IF r = 1 THEN d ELSE NoData]
  /\ cards = [r \in Req |-> <<>>]
  /\ metrics = [r \in Req |-> IF r = 1 THEN NewMetrics ELSE <<>>]
  /\ response = [r \in Req |-> NoResponse]

NextJoined == Respond200(1)

MkData(board, lists, labels, members, cardsRaw) ==
  [board |-> board, lists |-> lists, labels |-> labels, members |-> members,
   cards |-> cardsRaw]

\* cards that differ in what the card filter looks at; each would count in every
\* family if it survived.  Blocked is a list the lists response does not hold.
FilterCards ==
  [idList : {"", listNameToId.Inbox, listNameToId.Ref, listNameToId.Blocked},
   idLabels : {<<LabelUrgent>>, <<LabelUrgent, labelNameToId.Divider>>},
   idMembers : {<<MemberAnn>>},
   closed : BOOLEAN,
   cardRole : {"", "separator"},
   customFieldItems : {<<T(1), P(1)>>}]
FilterInputs ==
  {MkData(BoardX, BoardLists, BoardLabels, BoardMembers, cs) :
     cs \in SeqsUpTo(FilterCards, MaxCards)}
InitFilter == InitJoined(FilterInputs)
SpecFilter == InitFilter /\ [][NextJoined]_vars

\* ------------------------------------------------- claims: card filter
Family(m, name) == m[CHOOSE i \in DOMAIN m : m[i].name = name]
RemoveAt(seq, i) == SubSeq(seq, 1, i - 1) \o SubSeq(seq, i + 1, Len(seq))
RECURSIVE SumSeq(_)
SumSeq(seq) == IF seq = <<>> THEN 0 ELSE Head(seq) + SumSeq(Tail(seq))

\* the four reasons for which the specification drops a card
Dropped(c) ==
  \/ c.idList = ""
  \/ c.idList \in listsToIgnore
  \/ \E i \in DOMAIN c.idLabels :
       c.idLabels[i] \in ignoreCardsWithAtLeastOneOfTheseLabelIds
  \/ c.cardRole = "separator"

SurvivingLists(r) == SelectSeq(snapshot[r].lists, LAMBDA l : l.id \notin listsToIgnore)
\* positions of the raw cards that are neither dropped nor archived
LiveCards(r) ==
  {j \in DOMAIN snapshot[r].cards :
     ~Dropped(snapshot[r].cards[j]) /\ ~snapshot[r].cards[j].closed}

\* C1: a card with no idList, on an ignored list, with an exclusionary label or
\* with the separator role contributes to no sample: the metrics and the rendered
\* text are those of the same input without that card, whatever its closed flag,
\* members and custom-field items.
C1_DroppedCardContributesNothing ==
  \A r \in Req : response[r].status = 200 =>
    \A i \in DOMAIN snapshot[r].cards : Dropped(snapshot[r].cards[i]) =>
      LET without == [snapshot[r] EXCEPT !.cards = RemoveAt(@, i)]
      IN /\ metrics[r] = Aggregate(NewMetrics, without)
         /\ response[r].body = formatPrometheusMetrics(Aggregate(NewMetrics, without))

\* an open separator card on a surviving list, without exclusionary label, next
\* to a card that survives
C1_Witness ==
  /\ response[1].status = 200
  /\ \E i, j \in DOMAIN snapshot[1].cards :
       /\ snapshot[1].cards[i].cardRole = "separator"
       /\ snapshot[1].cards[i].idList = listNameToId.Inbox
       /\ snapshot[1].cards[i].idLabels = <<LabelUrgent>>
       /\ ~snapshot[1].cards[i].closed
       /\ j \in LiveCards(1)

\* C2: cards_in_list_total has one sample per surviving list, in list order, whose
\* value is the number of non-archived, non-dropped cards on that list, and the
\* values sum to the number of such cards that reference a surviving list.
C2_CardsInListCounts ==
  \A r \in Req : response[r].status = 200 =>
    LET samples == Family(metrics[r], "trello_cards_in_list_total").samples
        lists == SurvivingLists(r)
    IN /\ Len(samples) = Len(lists)
       /\ \A i \in DOMAIN lists :
            samples[i].value =
              Cardinality({j \in LiveCards(r) : snapshot[r].cards[j].idList = lists[i].id})
       /\ SumSeq([i \in DOMAIN samples |-> samples[i].value]) =
            Cardinality({j \in LiveCards(r) :
               \E i \in DOMAIN lists : snapshot[r].cards[j].idList = lists[i].id})

\* one live card on Inbox and one on a list the board did not return: Inbox
\* counts 1, Today 0, and the second card is in no sample of the family
C2_Witness ==
  /\ response[1].status = 200
  /\ Family(metrics[1], "trello_cards_in_list_total").samples[1].value = 1
  /\ Family(metrics[1], "trello_cards_in_list_total").samples[2].value = 0
  /\ \E j \in LiveCards(1) : snapshot[1].cards[j].idList = listNameToId.Blocked

\* C3: cards_by_priority_total and cards_by_time_total have exactly one sample per
\* entry of their static table, in table order, also when the count is 0; no sample
\* of labeled_cards_on_board or cards_per_board_member has value 0: a label or
\* member carried by no non-archived surviving card has no sample.
C3_EnumerationAndSuppression ==
  \A r \in Req : response[r].status = 200 =>
    LET byPriority == Family(metrics[r], "trello_cards_by_priority_total").samples
        byTime == Family(metrics[r], "trello_cards_by_time_total").samples
        byLabel == Family(metrics[r], "trello_labeled_cards_on_board").samples
        byMember == Family(metrics[r], "trello_cards_per_board_member").samples
        raw == snapshot[r].cards
    IN /\ Len(byPriority) = Len(priorityMap)
       /\ \A i \in DOMAIN priorityMap :
            byPriority[i].labels[2] = <<"priority", priorityMap[i].name>>
       /\ Len(byTime) = Len(timeMap)
       /\ \A i \in DOMAIN timeMap : byTime[i].labels[2] = <<"time", timeMap[i].range>>
       /\ \A i \in DOMAIN byLabel : byLabel[i].value > 0
       /\ \A i \in DOMAIN byMember : byMember[i].value > 0
       /\ Len(byLabel) =
            Cardinality({i \in DOMAIN snapshot[r].labels :
               \E j \in LiveCards(r) : \E n \in DOMAIN raw[j].idLabels :
                 raw[j].idLabels[n] = snapshot[r].labels[i].id})
       /\ Len(byMember) =
            Cardinality({i \in DOMAIN snapshot[r].members :
               \E j \in LiveCards(r) : \E n \in DOMAIN raw[j].idMembers :
                 raw[j].idMembers[n] = snapshot[r].members[i].id})

\* zero-count priority and time samples are present while the labels and the
\* member no live card carries are absent
C3_Witness ==
  /\ response[1].status = 200
  /\ Family(metrics[1], "trello_cards_by_priority_total").samples[5].value = 0
  /\ Family(metrics[1], "trello_cards_by_time_total").samples[1].value > 0
  /\ Len(Family(metrics[1], "trello_labeled_cards_on_board").samples) = 1
  /\ Len(Family(metrics[1], "trello_cards_per_board_member").samples) = 1

\* ------------------------------------------------ claims: family order
RECURSIVE Blocks(_, _)
\* the text made of one block per family name of order: its TYPE line, its HELP
\* line, then one line per sample of the metrics object m, in the order of samples
Blocks(m, order) ==
  IF order = <<>> THEN <<>>
  ELSE LET f == Family(m, Head(order))
       IN << <<"# TYPE ", f.name, " gauge">>, <<"# HELP ", f.name, " ", f.help>> >>
            \o [i \in DOMAIN f.samples |-> SampleLine(f.name, f.samples[i])]
            \o Blocks(m, Tail(order))

SpecFamilyOrder ==
  << "trello_boards_total", "trello_lists_per_board", "trello_cards_in_list_total",
     "trello_cards_by_priority_total", "trello_cards_by_time_total",
     "trello_time_in_list_total", "trello_labeled_cards_on_board",
     "trello_cards_per_board_member" >>

DeclaredFamilyOrder ==
  << "trello_boards_total", "trello_cards_in_list_total",
     "trello_labeled_cards_on_board", "trello_cards_per_board_member",
     "trello_lists_per_board", "trello_time_in_list_total",
     "trello_cards_by_priority_total", "trello_cards_by_time_total" >>

\* C7 as stated: the text is one contiguous block per family (TYPE, HELP, samples
\* in aggregation order), the blocks in the order of the specification's family list.
C7_BlocksInSpecOrder ==
  \A r \in Req : response[r].status = 200 =>
    response[r].body = Blocks(metrics[r], SpecFamilyOrder)

\* C7 amended: the text is one contiguous block per family (TYPE, HELP, samples in
\* aggregation order), the blocks in the order in which the metrics object declares
\* its families.
C7_BlocksInDeclaredOrder ==
  \A r \in Req : response[r].status = 200 =>
    response[r].body = Blocks(metrics[r], DeclaredFamilyOrder)

\* a text whose label and member blocks carry a sample
C7_Witness ==
  /\ response[1].status = 200
  /\ Len(Family(metrics[1], "trello_labeled_cards_on_board").samples) = 1
  /\ Len(Family(metrics[1], "trello_cards_per_board_member").samples) = 1
  /\ Len(response[1].body) > 2 * Len(DeclaredFamilyOrder)

\* ------------------------------------------ claims: custom-field items
ItemValues == {T(1), T(2), P(1), P(2), Item("5d00000000000000000000ff"), Item("")}
CustomCards ==
  [idList : {listNameToId.Inbox, listNameToId.Done},
   idLabels : {<<>>}, idMembers : {<<>>},
   closed : BOOLEAN, cardRole : {"", "separator"},
   customFieldItems : SeqsUpTo(ItemValues, MaxItems)]
CustomInputs ==
  {MkData(BoardX, BoardLists, BoardLabels, BoardMembers, <<c>>) : c \in CustomCards}
InitCustom == InitJoined(CustomInputs)
SpecCustom == InitCustom /\ [][NextJoined]_vars

Max(S) == CHOOSE x \in S : \A y \in S : y <= x
TimeKeys == {timeMap[i].id : i \in DOMAIN timeMap}
PriorityKeys == {priorityMap[i].id : i \in DOMAIN priorityMap}

\* C4: a surviving card's TimeEstimate is the time-table entry of the last item
\* whose idValue is a key of the time table, its Priority the priority-table entry
\* of the last item whose idValue is a key of the priority table; other items
\* change neither, and without a matching item the field is unresolved.
C4_LastMatchWins ==
  \A r \in Req : response[r].status = 200 =>
    /\ Len(cards[r]) = Cardinality({j \in DOMAIN snapshot[r].cards :
                                      ~Dropped(snapshot[r].cards[j])})
    /\ \A i \in DOMAIN cards[r] :
         LET items == cards[r][i].customFieldItems
             ts == {j \in DOMAIN items : items[j].idValue \in TimeKeys}
             ps == {j \in DOMAIN items : items[j].idValue \in PriorityKeys}
         IN /\ cards[r][i].customInfo.time =
                 IF ts = {} THEN UndefinedTime
                 ELSE timeMap[CHOOSE n \in DOMAIN timeMap :
                                timeMap[n].id = items[Max(ts)].idValue]
            /\ cards[r][i].customInfo.priority =
                 IF ps = {} THEN UndefinedPriority
                 ELSE priorityMap[CHOOSE n \in DOMAIN priorityMap :
                                    priorityMap[n].id = items[Max(ps)].idValue].name

\* two recognized time values on one card: the later one is the estimate
C4_Witness ==
  /\ response[1].status = 200
  /\ cards[1][1].customFieldItems = <<T(1), T(2)>>
  /\ cards[1][1].customInfo.time.s = 600
  /\ cards[1][1].customInfo.priority = UndefinedPriority

\* ------------------------------------- claims: priority and time counts
PriorityCards ==
  [idList : {listNameToId.Inbox, listNameToId.Done},
   idLabels : {<<>>}, idMembers : {<<>>},
   closed : BOOLEAN, cardRole : {""},
   customFieldItems : {<<>>, <<T(1)>>, <<P(1)>>, <<T(1), P(1)>>, <<P(2), T(2)>>}]
PriorityInputs ==
  {MkData(BoardX, BoardLists, BoardLabels, BoardMembers, cs) :
     cs \in SeqsUpTo(PriorityCards, MaxCards)}
InitPriority == InitJoined(PriorityInputs)
SpecPriority == InitPriority /\ [][NextJoined]_vars

Chars == {"a", BS, DQ, NL}
Names == SeqsUpTo(Chars, MaxNameLen)
EscapeCard ==
  [idList |-> listNameToId.Inbox, idLabels |-> <<LabelUrgent>>,
   idMembers |-> <<MemberAnn>>, closed |-> FALSE, cardRole |-> "",
   customFieldItems |-> <<T(1), P(1)>>]
EscapeInputs ==
  {MkData([name |-> b], <<MkList(listNameToId.Inbox, l)>>,
          <<MkLabel(LabelUrgent, <<"Urgent">>, <<"red">>)>>,
          <<MkMember(MemberAnn, <<"Ann">>, <<"ann1">>)>>, <<EscapeCard>>) :
     b \in Names, l \in Names}
InitEscape == InitJoined(EscapeInputs)
SpecEscape == InitEscape /\ [][NextJoined]_vars

RECURSIVE EscapedOnce(_)
\* v with each backslash, double quote and newline replaced by its escape, once
EscapedOnce(v) ==
  IF v = <<>> THEN <<>>
  ELSE (CASE Head(v) = BS -> <<BS, BS>>
          [] Head(v) = DQ -> <<BS, DQ>>
          [] Head(v) = NL -> <<BS, "n">>
          [] OTHER -> <<Head(v)>>) \o EscapedOnce(Tail(v))

\* the line of sample i of a family labelled by board and one more key, for the
\* display names b and v and the value the aggregator produced
TwoLabelLine(r, family, key, b, v, i) ==
  <<family, "{", "board", "=", DQ>> \o EscapedOnce(b)
     \o <<DQ, ", ", key, "=", DQ>> \o EscapedOnce(v)
     \o <<DQ, "}", " ", ToString(Family(metrics[r], family).samples[i].value)>>

Contains(text, line) == \E i \in DOMAIN text : text[i] = line

\* C5: between the double quotes of a rendered sample line stands the label value
\* (board, list, label, member, priority or time name) with every backslash,
\* double quote and newline escaped exactly once and nothing else altered.
C5_LabelValuesEscapedOnce ==
  \A r \in Req : response[r].status = 200 =>
    LET b == OrElse(snapshot[r].board.name, <<"(unknown)">>)
        l == snapshot[r].lists[1].name
        text == response[r].body
    IN /\ Contains(text, <<"trello_lists_per_board", "{", "board", "=", DQ>>
                            \o EscapedOnce(b) \o <<DQ, "}", " ", "1">>)
       /\ Contains(text, TwoLabelLine(r, "trello_cards_in_list_total", "list", b, l, 1))
       /\ Contains(text, TwoLabelLine(r, "trello_time_in_list_total", "list", b, l, 1))
       /\ Contains(text, TwoLabelLine(r, "trello_labeled_cards_on_board", "label", b,
                                      snapshot[r].labels[1].name, 1))
       /\ Contains(text, TwoLabelLine(r, "trello_cards_per_board_member", "member", b,
                                      snapshot[r].members[1].fullName, 1))
       /\ \A i \in DOMAIN priorityMap :
            Contains(text, TwoLabelLine(r, "trello_cards_by_priority_total", "priority",
                                        b, priorityMap[i].name, i))
       /\ \A i \in DOMAIN timeMap :
            Contains(text, TwoLabelLine(r, "trello_cards_by_time_total", "time",
                                        b, timeMap[i].range, i))

\* ------------------------------------------- claims: unique label-sets
DupNames == {<<"A">>, <<"B">>}
DupCard ==
  [idList |-> listNameToId.Inbox, idLabels |-> <<LabelUrgent, LabelLater>>,
   idMembers |-> <<MemberAnn, MemberBob>>, closed |-> FALSE, cardRole |-> "",
   customFieldItems |-> <<>>]
NamesInputs ==
  {MkData(BoardX,
          <<MkList(listNameToId.Inbox, n1), MkList(listNameToId.Today, n2)>>,
          <<MkLabel(LabelUrgent, <<"A">>, <<"red">>), MkLabel(LabelLater, ln, lc)>>,
          <<MkMember(MemberAnn, <<"A">>, <<"ann1">>), MkMember(MemberBob, mf, mu)>>,
          cs) :
     n1 \in DupNames, n2 \in DupNames,
     ln \in {<<>>} \cup DupNames, lc \in {<<>>, <<"red">>},
     mf \in {<<>>} \cup DupNames, mu \in {<<>>, <<"A">>},
     cs \in {<<>>, <<DupCard>>}}
InitNames == InitJoined(NamesInputs)
SpecNames == InitNames /\ [][NextJoined]_vars

\* C6: within each metric family no two samples carry the same label-set.
C6_LabelSetsUnique ==
  \A r \in Req : response[r].status = 200 =>
    \A f \in DOMAIN metrics[r] :
      \A i, j \in DOMAIN metrics[r][f].samples :
        i # j => metrics[r][f].samples[i].labels # metrics[r][f].samples[j].labels

\* ------------------------------------------------- the request served
NextFetch ==
  \/ Request(1)
  \/ \E k \in Fetches : FetchOk(1, k)
  \/ \E k \in Fetches : FetchFail(1, k)
  \/ Respond200(1)
SpecFetch == InitIdle /\ [][NextFetch]_vars

IsMetricLine(line) ==
  \/ line[1] \in {"# TYPE ", "# HELP "}
  \/ \E f \in DOMAIN NewMetrics : line[1] = NewMetrics[f].name

\* C8: the five fetches of a request are issued together, each exactly once, and
\* all five have resolved before anything is aggregated or a 200 is sent; if one
\* fails none is issued again, the answer is a 500 and its body has no metric line.
C8_AllOrNothing ==
  \A r \in Req :
    /\ pc[r] # "idle" => \A k \in Fetches : issued[r][k] = 1
    /\ (response[r].status = 200 \/ metrics[r] \notin {<<>>, NewMetrics}) =>
         \A k \in Fetches : fetchState[r][k] = "ok"
    /\ (\E k \in Fetches : fetchState[r][k] = "failed") =>
         /\ response[r].status = 500
         /\ \A i \in DOMAIN response[r].body : ~IsMetricLine(response[r].body[i])
         /\ metrics[r] = NewMetrics

\* the cards fetch fails after the four others succeeded
C8_Witness ==
  /\ response[1].status = 500
  /\ fetchState[1]["cards"] = "failed"
  /\ \A k \in Fetches \ {"cards"} : fetchState[1][k] = "ok"

\* ------------------------------------------------ concurrent requests
NextServer ==
  \E r \in Req :
    \/ Request(r)
    \/ \E k \in Fetches : FetchOk(r, k)
    \/ Respond200(r)
SpecServer == InitIdle /\ [][NextServer]_vars

\* C10: whatever the interleaving, the body of a 200 is the rendering of the
\* aggregation, from a fresh metrics object, of what this request's own fetches
\* returned.
C10_OwnSnapshotOnly ==
  \A r \in Req : response[r].status = 200 =>
    /\ metrics[r] = Aggregate(NewMetrics, snapshot[r])
    /\ response[r].body = formatPrometheusMetrics(Aggregate(NewMetrics, snapshot[r]))

\* two requests in flight together fetched different cards and were answered
\* with different texts
C10_Witness ==
  /\ response[1].status = 200
  /\ response[2].status = 200
  /\ snapshot[1].cards # snapshot[2].cards
  /\ response[1].body # response[2].body

====
